---- MODULE Spec2Model ----
(***************************************************************************)
(* Model of the coinflip farmer bot: the betting engine                    *)
(* (src/betting_engine.py), the strategy loop of src/main.py and the       *)
(* verification monitor's poll and alert threads                           *)
(* (src/verification_monitor.py).                                          *)
(*                                                                         *)
(* Numbers.  Balances are floats parsed from integer strings, so they are  *)
(* integers here.  Percentages are whole percents and the loss multiplier  *)
(* is kept in tenths (25 is 2.5); every product the engine forms is then   *)
(* an exact number of hundredths, and Python's round() (round half to      *)
(* even) is RoundHalfEven over hundredths.                                 *)
(*                                                                         *)
(* Chat.  A message is what the code can see of its text: the marker       *)
(* phrases it contains, the integers printed in it and the number the     *)
(* "<number> cowoncy" pattern captures, if it matches.                     *)
(* A failed fetch is the empty batch (get_recent_messages returns []).     *)
(***************************************************************************)
EXTENDS Integers, Sequences, FiniteSets, TLC

VARIABLES
    config,                 \* the loaded configuration (never changes)
    current_cash, starting_balance, current_bet, consecutive_losses,
    total_bets, total_wins, total_losses, total_profit,
    stop_loss_triggered, profit_target_reached, max_losses_reached,
    session_hours,          \* whole hours since session_start_time
    pc,                     \* position of the main thread
    calc_bet,               \* last value returned by calculate_bet_amount
    bet_amount,             \* run_betting_strategy's local bet_amount
    cf_pending,             \* place_coinflip_bet: "spent ... coin spins"
                            \* messages of the first batch still to visit
    result,                 \* last value returned by place_coinflip_bet
    stop_reason,            \* why the strategy loop ended
    should_exit,
    verification_detected, should_stop_monitoring, monitor_alive,
    wait_timed_out,         \* wait_for_verification_resolution: the timeout
                            \* had elapsed when its while loop ended
    mon_pc,                 \* position of the monitor thread
    mon_found,              \* _monitor_loop: the last result of
                            \* check_for_verification
    alert_pc,               \* position of the alert thread ("off": not alive)
    ping_count,             \* _alert_loop's local ping_count
    alerts_sent,            \* history: alerts sent by the current run of
                            \* the alert loop
    mon_late, alert_late,   \* history: checks made by the monitor thread
                            \* and by the alert thread since the stop
                            \* request
    final_report,           \* history: log_statistics has run in the finally
                            \* of run_betting_strategy
    session_ends,           \* history: number of session-end reports logged
                            \* by shutdown (log_session_end)
    cash_reads,             \* history: number of successful balance reads
    sent,                   \* history: the amounts of the wagers sent
    results                 \* history: the outcomes returned, in order

vars == << config, current_cash, starting_balance, current_bet,
           consecutive_losses, total_bets, total_wins, total_losses,
           total_profit, stop_loss_triggered, profit_target_reached,
           max_losses_reached, session_hours, pc, calc_bet, bet_amount,
           cf_pending, result, stop_reason, should_exit,
           verification_detected, should_stop_monitoring, monitor_alive,
           wait_timed_out, mon_pc, mon_found, alert_pc, ping_count,
           alerts_sent, mon_late, alert_late, final_report, session_ends,
           cash_reads, sent, results >>

engine_vars == << current_cash, starting_balance, current_bet,
                  consecutive_losses, total_bets, total_wins, total_losses,
                  total_profit, stop_loss_triggered, profit_target_reached,
                  max_losses_reached >>

alert_vars == << alert_pc, ping_count, alerts_sent >>

late_vars == << mon_late, alert_late >>

monitor_vars == << verification_detected, should_stop_monitoring,
                   monitor_alive, mon_pc, mon_found, alert_vars, late_vars >>

history_vars == << cash_reads, sent, results >>

----------------------------------------------------------------------------
(* Bounds of the model *)

\* wagers placed in one explored session
MaxBets == 3
\* wagers placed in one explored run of the worked scenario
ScenarioBets == 5
\* hours of session time explored
MaxHours == 1
\* messages in one fetched batch
MaxBatch == 2
\* wagers placed in one explored session with the alert thread
MonitorBets == 1

----------------------------------------------------------------------------
(* Configuration *)

DefaultConfig ==
    [ initial_bet_percentage     |-> 1,
      loss_multiplier_tenths     |-> 25,
      min_bet_amount             |-> 1,
      max_consecutive_losses     |-> 10,
      enable_stop_loss           |-> TRUE,
      stop_loss_percentage       |-> 50,
      enable_profit_target       |-> FALSE,
      profit_target_percentage   |-> 100,
      enable_max_bet_limit       |-> TRUE,
      max_bet_percentage         |-> 10,
      enable_session_time_limit  |-> FALSE,
      session_time_limit_hours   |-> 24,
      enable_verification_protection |-> TRUE,
      enable_verification_alerts |-> TRUE ]

\* The configurations explored.  Alerts are off in all of them: the alert
\* thread is not part of this specification.
ShortStreak ==
    [DefaultConfig EXCEPT !.max_consecutive_losses = 2,
                          !.enable_verification_alerts = FALSE]

Uncapped ==
    [ShortStreak EXCEPT !.enable_max_bet_limit = FALSE,
                        !.enable_stop_loss = FALSE,
                        !.min_bet_amount = 10,
                        !.enable_profit_target = TRUE]

TimeBoxed ==
    [ShortStreak EXCEPT !.initial_bet_percentage = 50,
                        !.max_consecutive_losses = 1,
                        !.enable_session_time_limit = TRUE,
                        !.session_time_limit_hours = 1,
                        !.enable_verification_protection = FALSE]

Configs == {ShortStreak, Uncapped, TimeBoxed}

\* The worked scenario: 1 % initial bet, multiplier 2.5, no max-bet limit.
ScenarioConfig ==
    [DefaultConfig EXCEPT !.enable_max_bet_limit = FALSE,
                          !.enable_verification_alerts = FALSE]

\* The balance the worked scenario starts from
ScenarioBalances == {1000}

\* Balances the chat may show
Balances == {0, 5, 125, 1000}

----------------------------------------------------------------------------
(* Arithmetic *)

Max(a, b) == IF a >= b THEN a ELSE b
Min(a, b) == IF a <= b THEN a ELSE b

\* Mutant of RoundHalfEven: ties go up
RoundHalfUp(n, d) ==
    LET q == n \div d
        r == n % d
    IN  IF 2 * r < d THEN q ELSE q + 1

\* Python 3 round(n / d) for n >= 0, d > 0: ties go to the even integer.
RoundHalfEven(n, d) ==
    LET q == n \div d
        r == n % d
    IN  IF 2 * r < d THEN q
        ELSE IF 2 * r > d THEN q + 1
        ELSE IF q % 2 = 0 THEN q ELSE q + 1

RECURSIVE Digits(_)
\* str(n) as a sequence of decimal digits
Digits(n) == IF n < 10 THEN <<n>> ELSE Digits(n \div 10) \o <<n % 10>>

\* The position a for loop over a batch reaches first among hits, 0 if none
First(hits) ==
    IF hits = {} THEN 0 ELSE CHOOSE i \in hits : \A j \in hits : i <= j

\* s in t, for digit strings
IsSubstring(s, t) ==
    \E i \in 0..(Len(t) - Len(s)) : SubSeq(t, i + 1, i + Len(s)) = s

----------------------------------------------------------------------------
(* Chat messages *)

Message(ph, nums, amt) == [phrases |-> ph, numbers |-> nums, cash |-> amt]

\* cash is what the pattern (\d+(?:,\d+)*)\s*cowoncy captures, separators
\* stripped: {} when it does not match, {v} when it captures v.
Noise == Message({}, {}, {})
\* "cowoncy" without a number in front of it
KeywordOnly == Message({"cowoncy"}, {}, {})
CashMsg(v) == Message({"cowoncy"}, {v}, {v})
SpentMsg(a) == Message({"spent", "coin spins"}, {a}, {})
WinMsg(a) == Message({"spent", "coin spins", "you won"}, {a, 2 * a}, {})
LossMsg(a) == Message({"spent", "coin spins", "lost it all"}, {a}, {})
\* a result without the "spent" line
BareLossMsg(a) == Message({"lost it all"}, {a}, {})
\* "You won **<2a>**!!" and "...lost it all..." on their own
BareWinText(a) == Message({"you won"}, {2 * a}, {})
BareLossText == Message({"lost it all"}, {}, {})
ChallengeMsg == Message({"human", "verify"}, {}, {})

BatchesOver(msgs) == UNION {[1..n -> msgs] : n \in 0..MaxBatch}

CashBatches(values) ==
    BatchesOver({Noise, KeywordOnly} \cup {CashMsg(v) : v \in values})

CoinflipBatches(a) ==
    BatchesOver({Noise, SpentMsg(a), WinMsg(a), LossMsg(a), BareLossMsg(a)})

\* What the monitor's fetch may hold: nothing (or a failed fetch), no
\* challenge, a challenge, a challenge below a newer message
MonitorBatches == {<< >>, <<Noise>>, <<ChallengeMsg>>, <<Noise, ChallengeMsg>>}

----------------------------------------------------------------------------
(* The betting engine's state as one record, for the pure operators below *)

Engine ==
    [ current_cash          |-> current_cash,
      starting_balance      |-> starting_balance,
      current_bet           |-> current_bet,
      consecutive_losses    |-> consecutive_losses,
      total_bets            |-> total_bets,
      total_wins            |-> total_wins,
      total_losses          |-> total_losses,
      total_profit          |-> total_profit,
      stop_loss_triggered   |-> stop_loss_triggered,
      profit_target_reached |-> profit_target_reached,
      max_losses_reached    |-> max_losses_reached ]

SetEngine(e) ==
    /\ current_cash' = e.current_cash
    /\ starting_balance' = e.starting_balance
    /\ current_bet' = e.current_bet
    /\ consecutive_losses' = e.consecutive_losses
    /\ total_bets' = e.total_bets
    /\ total_wins' = e.total_wins
    /\ total_losses' = e.total_losses
    /\ total_profit' = e.total_profit
    /\ stop_loss_triggered' = e.stop_loss_triggered
    /\ profit_target_reached' = e.profit_target_reached
    /\ max_losses_reached' = e.max_losses_reached

\* BettingEngine.__init__
NewEngine ==
    [ current_cash          |-> 0,
      starting_balance      |-> 0,
      current_bet           |-> 0,
      consecutive_losses    |-> 0,
      total_bets            |-> 0,
      total_wins            |-> 0,
      total_losses          |-> 0,
      total_profit          |-> 0,
      stop_loss_triggered   |-> FALSE,
      profit_target_reached |-> FALSE,
      max_losses_reached    |-> FALSE ]

----------------------------------------------------------------------------
(* BettingEngine._check_risk_conditions *)

\* Mutant of StopLossHit: the enable_stop_loss switch is not consulted
StopLossIgnoringSwitch(cfg, e) ==
    /\ e.starting_balance > 0
    /\ (e.starting_balance - e.current_cash) * 100
          >= cfg.stop_loss_percentage * e.starting_balance

\* ((starting_balance - current_cash) / starting_balance) * 100
\*     >= stop_loss_percentage, with starting_balance > 0
StopLossHit(cfg, e) ==
    /\ cfg.enable_stop_loss
    /\ e.starting_balance > 0
    /\ (e.starting_balance - e.current_cash) * 100
          >= cfg.stop_loss_percentage * e.starting_balance

\* (total_profit / starting_balance) * 100 >= profit_target_percentage
ProfitTargetHit(cfg, e) ==
    /\ cfg.enable_profit_target
    /\ e.starting_balance > 0
    /\ e.total_profit * 100 >= cfg.profit_target_percentage * e.starting_balance

MaxLossesHit(cfg, e) == e.consecutive_losses >= cfg.max_consecutive_losses

CheckRiskConditions(cfg, e) ==
    [e EXCEPT
       !.stop_loss_triggered   = IF StopLossHit(cfg, e) THEN TRUE ELSE @,
       !.profit_target_reached = IF ProfitTargetHit(cfg, e) THEN TRUE ELSE @,
       !.max_losses_reached    = IF MaxLossesHit(cfg, e) THEN TRUE ELSE @]

----------------------------------------------------------------------------
(* BettingEngine.check_cash *)

\* Mutant of CashIndex: the oldest message with a balance is taken
OldestCashIndex(messages) ==
    LET hits == {i \in 1..Len(messages) : messages[i].cash # {}}
    IN  IF hits = {} THEN 0 ELSE CHOOSE i \in hits : \A j \in hits : i >= j

\* The first message that holds "cowoncy" and matches the pattern; 0 if none
CashIndex(messages) ==
    First({i \in 1..Len(messages) :
              /\ "cowoncy" \in messages[i].phrases
              /\ messages[i].cash # {}})

\* Mutant of FirstBalance: every read overwrites the starting balance
LatestBalance(start, cash) == cash

\* if self.starting_balance == 0: self.starting_balance = self.current_cash
FirstBalance(start, cash) == IF start = 0 THEN cash ELSE start

\* Mutant of RecordCash: total_profit is not recomputed by the read
RecordCashStaleProfit(cfg, e, v) ==
    LET start == FirstBalance(e.starting_balance, v)
        read  == [e EXCEPT !.current_cash = v, !.starting_balance = start]
    IN  CheckRiskConditions(cfg, read)

\* The engine after a balance of v was parsed
RecordCash(cfg, e, v) ==
    LET start == FirstBalance(e.starting_balance, v)
        read  == [e EXCEPT !.current_cash = v,
                           !.starting_balance = start,
                           !.total_profit = v - start]
    IN  CheckRiskConditions(cfg, read)

\* found: a balance was parsed; ret: the value returned; engine: the state left
CheckCash(cfg, e, messages) ==
    LET i == CashIndex(messages)
    IN  IF i = 0
        THEN [found |-> FALSE, ret |-> 0, engine |-> e]
        ELSE LET v == CHOOSE x \in messages[i].cash : TRUE
             IN  [found |-> TRUE, ret |-> v, engine |-> RecordCash(cfg, e, v)]

----------------------------------------------------------------------------
(* BettingEngine.calculate_bet_amount, in hundredths until the final round *)

BaseBetHundredths(cfg, e) ==
    IF e.consecutive_losses = 0
    THEN e.current_cash * cfg.initial_bet_percentage
    ELSE e.current_bet * cfg.loss_multiplier_tenths * 10

\* Mutant of ClampedBetHundredths: the minimum bet is not applied
ClampedBetWithoutFloor(cfg, e) ==
    IF cfg.enable_max_bet_limit
    THEN Min(BaseBetHundredths(cfg, e), e.current_cash * cfg.max_bet_percentage)
    ELSE BaseBetHundredths(cfg, e)

\* Mutant of ClampedBetHundredths: the cap is applied before the minimum bet
ClampedBetCapFirst(cfg, e) ==
    LET capped == IF cfg.enable_max_bet_limit
                  THEN Min(BaseBetHundredths(cfg, e),
                           e.current_cash * cfg.max_bet_percentage)
                  ELSE BaseBetHundredths(cfg, e)
    IN  Max(capped, cfg.min_bet_amount * 100)

ClampedBetHundredths(cfg, e) ==
    LET floored == Max(BaseBetHundredths(cfg, e), cfg.min_bet_amount * 100)
    IN  IF cfg.enable_max_bet_limit
        THEN Min(floored, e.current_cash * cfg.max_bet_percentage)
        ELSE floored

CalculateBetAmount(cfg, e) == RoundHalfEven(ClampedBetHundredths(cfg, e), 100)

\* Mutant of ClampToCash: the bet is not compared with the balance
UnclampedBet(bet, cash) == bet

\* run_betting_strategy: if bet_amount > current_cash: bet_amount = current_cash
ClampToCash(bet, cash) == IF bet > cash THEN cash ELSE bet

----------------------------------------------------------------------------
(* BettingEngine.place_coinflip_bet *)

\* Mutant of PlaceBet: the bet is not counted when it is placed
PlaceBetUncounted(e, amount) == [e EXCEPT !.current_bet = amount]

\* amount = round(amount); current_bet = amount; total_bets += 1
PlaceBet(e, amount) ==
    [e EXCEPT !.current_bet = amount, !.total_bets = @ + 1]

\* Mutant of RecordWin: breaking the streak also clears the max-losses flag
RecordWinClearingFlag(e) ==
    [e EXCEPT !.total_wins = @ + 1,
              !.consecutive_losses = IF @ > 0 THEN 0 ELSE @,
              !.max_losses_reached = FALSE]

\* Mutant of RecordWin: the streak is not reset
RecordWinKeepingStreak(e) == [e EXCEPT !.total_wins = @ + 1]

RecordWin(e) ==
    [e EXCEPT !.total_wins = @ + 1,
              !.consecutive_losses = IF @ > 0 THEN 0 ELSE @]

RecordLoss(e) ==
    [e EXCEPT !.total_losses = @ + 1, !.consecutive_losses = @ + 1]

\* Mutant of RecordOutcome: an undetermined outcome is booked as a loss
RecordUnknownAsLoss(e, outcome) ==
    IF outcome = "win" THEN RecordWin(e) ELSE RecordLoss(e)

RecordOutcome(e, outcome) ==
    CASE outcome = "win"  -> RecordWin(e)
      [] outcome = "loss" -> RecordLoss(e)
      [] OTHER            -> e

\* Mutant of IsCoinflip: any marker makes a message one about the coin flip
IsCoinflipAnyMarker(m) == m.phrases # {}

IsCoinflip(m) == "spent" \in m.phrases /\ "coin spins" \in m.phrases

\* str(amount) in message_text
Mentions(m, amount) ==
    \E n \in m.numbers : IsSubstring(Digits(amount), Digits(n))

\* The scan of an updated batch: the first message with a marker decides,
\* and "you won" is tested before "lost it all"
UpdatedOutcome(updated) ==
    LET i == First({k \in 1..Len(updated) :
                       \/ "you won" \in updated[k].phrases
                       \/ "lost it all" \in updated[k].phrases})
    IN  IF i = 0 THEN "unknown"
        ELSE IF "you won" \in updated[i].phrases THEN "win" ELSE "loss"

\* Mutant of FinalOutcome: the amount is not looked for
FinalOutcomeAnyAmount(final, amount) ==
    LET i == First({k \in 1..Len(final) :
                       \/ "you won" \in final[k].phrases
                       \/ "lost it all" \in final[k].phrases})
    IN  IF i = 0 THEN "unknown"
        ELSE IF "you won" \in final[i].phrases THEN "win" ELSE "loss"

\* The scan of the final batch: the first message with a marker and the
\* amount decides
FinalOutcome(final, amount) ==
    LET i == First({k \in 1..Len(final) :
                       /\ Mentions(final[k], amount)
                       /\ \/ "you won" \in final[k].phrases
                          \/ "lost it all" \in final[k].phrases})
    IN  IF i = 0 THEN "unknown"
        ELSE IF "you won" \in final[i].phrases THEN "win" ELSE "loss"

\* The primary read: the updated batch is scanned once for every message
\* of the first batch that holds "spent" and "coin spins"
PrimaryOutcome(first, updated) ==
    IF \E k \in 1..Len(first) : IsCoinflip(first[k])
    THEN UpdatedOutcome(updated)
    ELSE "unknown"

\* What place_coinflip_bet returns for a bet of amount when every fetch
\* returns the same batch
BetOutcome(batch, amount) ==
    IF PrimaryOutcome(batch, batch) # "unknown"
    THEN PrimaryOutcome(batch, batch)
    ELSE FinalOutcome(batch, amount)

----------------------------------------------------------------------------
(* BettingEngine.should_stop_betting, as <<should_stop, reason>> *)

\* Mutant of ShouldStopBetting: the balance is tested before the flags
StopOnFundsFirst(cfg, e, hours) ==
    IF e.current_cash <= 0 THEN <<TRUE, "Insufficient funds">>
    ELSE IF e.stop_loss_triggered THEN <<TRUE, "Stop loss triggered">>
    ELSE IF e.profit_target_reached THEN <<TRUE, "Profit target reached">>
    ELSE IF e.max_losses_reached
         THEN <<TRUE, "Maximum consecutive losses reached">>
    ELSE IF cfg.enable_session_time_limit
            /\ hours >= cfg.session_time_limit_hours
         THEN <<TRUE, "Session time limit reached">>
    ELSE <<FALSE, "">>

ShouldStopBetting(cfg, e, hours) ==
    IF e.stop_loss_triggered THEN <<TRUE, "Stop loss triggered">>
    ELSE IF e.profit_target_reached THEN <<TRUE, "Profit target reached">>
    ELSE IF e.max_losses_reached
         THEN <<TRUE, "Maximum consecutive losses reached">>
    ELSE IF e.current_cash <= 0 THEN <<TRUE, "Insufficient funds">>
    ELSE IF cfg.enable_session_time_limit
            /\ hours >= cfg.session_time_limit_hours
         THEN <<TRUE, "Session time limit reached">>
    ELSE <<FALSE, "">>

----------------------------------------------------------------------------
(* VerificationMonitor.check_for_verification *)

\* The four patterns need more than the keyword pairs; a message holding
\* "human" and "verify", or "@", "verify" and "minutes", is a challenge.
IsChallenge(m) ==
    \/ "pattern" \in m.phrases
    \/ ("human" \in m.phrases /\ "verify" \in m.phrases)
    \/ ("@" \in m.phrases /\ "verify" \in m.phrases /\ "minutes" \in m.phrases)

\* Mutant of CheckForVerification: the protection switch is not consulted
CheckForVerificationAlways(cfg, messages) ==
    \E i \in 1..Len(messages) : IsChallenge(messages[i])

CheckForVerification(cfg, messages) ==
    /\ cfg.enable_verification_protection
    /\ \E i \in 1..Len(messages) : IsChallenge(messages[i])

----------------------------------------------------------------------------
(* VerificationMonitor._monitor_loop and _alert_loop *)

\* max_pings of _alert_loop
max_pings == 50

\* Mutant of PolledFlag: a poll that finds the challenge again takes the
\* flag back
PolledFlagToggling(detected, found) == found /\ ~detected

\* Mutant of PolledFlag: a poll that finds nothing leaves the flag set
PolledFlagLatched(detected, found) == detected \/ found

\* The flag after one poll: set on Idle -> Detected, cleared on
\* Detected -> Idle, otherwise left as it is
PolledFlag(detected, found) ==
    IF found
    THEN (IF ~detected THEN TRUE ELSE detected)
    ELSE (IF detected THEN FALSE ELSE detected)

\* Mutant of AlertMayContinue: the stop flag is not consulted
AlertMayContinueIgnoringStop(stopping, count) == count < max_pings

\* Mutant of AlertMayContinue: the cap is tested with <=
AlertMayContinuePastCap(stopping, count) == ~stopping /\ count <= max_pings

\* while not self.should_stop_monitoring and ping_count < max_pings
AlertMayContinue(stopping, count) == ~stopping /\ count < max_pings

----------------------------------------------------------------------------
(* Initial state: the components as constructed by initialize_components *)

InitWith(cfgs) ==
    /\ config \in cfgs
    /\ current_cash = NewEngine.current_cash
    /\ starting_balance = NewEngine.starting_balance
    /\ current_bet = NewEngine.current_bet
    /\ consecutive_losses = NewEngine.consecutive_losses
    /\ total_bets = NewEngine.total_bets
    /\ total_wins = NewEngine.total_wins
    /\ total_losses = NewEngine.total_losses
    /\ total_profit = NewEngine.total_profit
    /\ stop_loss_triggered = NewEngine.stop_loss_triggered
    /\ profit_target_reached = NewEngine.profit_target_reached
    /\ max_losses_reached = NewEngine.max_losses_reached
    /\ session_hours = 0
    /\ pc = "services"
    /\ calc_bet = 0
    /\ bet_amount = 0
    /\ cf_pending = 0
    /\ result = "none"
    /\ stop_reason = ""
    /\ should_exit = FALSE
    /\ verification_detected = FALSE
    /\ should_stop_monitoring = FALSE
    /\ monitor_alive = FALSE
    /\ wait_timed_out = FALSE
    /\ mon_pc = "off"
    /\ mon_found = FALSE
    /\ alert_pc = "off"
    /\ ping_count = 0
    /\ alerts_sent = 0
    /\ mon_late = 0
    /\ alert_late = 0
    /\ final_report = FALSE
    /\ session_ends = 0
    /\ cash_reads = 0
    /\ sent = << >>
    /\ results = << >>

Init == InitWith(Configs)

ScenarioInit == InitWith({ScenarioConfig})

----------------------------------------------------------------------------
(* The main thread: DiscordCoinflipBot.run and run_betting_strategy *)

\* start_bot_services -> VerificationMonitor.start_monitoring
StartBotServices ==
    /\ pc = "services"
    /\ pc' = "start"
    /\ should_stop_monitoring' =
          IF config.enable_verification_protection
          THEN FALSE ELSE should_stop_monitoring
    /\ monitor_alive' = config.enable_verification_protection
    /\ mon_pc' = IF config.enable_verification_protection THEN "head" ELSE mon_pc
    /\ UNCHANGED << config, final_report, session_ends, wait_timed_out, engine_vars, session_hours,
                    calc_bet, bet_amount, cf_pending, result, stop_reason,
                    should_exit, verification_detected, mon_found,
                    alert_vars, late_vars, history_vars >>

\* The initial cash check: a balance <= 0 ends run_betting_strategy
InitialCashCheckOn(batches) ==
    /\ pc = "start"
    /\ \E messages \in batches :
          LET r == CheckCash(config, Engine, messages)
          IN  /\ SetEngine(r.engine)
              /\ cash_reads' = IF r.found THEN cash_reads + 1 ELSE cash_reads
              /\ IF r.ret <= 0
                 THEN pc' = "finished" /\ stop_reason' = "No cowoncy detected"
                 ELSE pc' = "loop" /\ UNCHANGED stop_reason
    /\ UNCHANGED << config, final_report, session_ends, wait_timed_out, session_hours, calc_bet, bet_amount, cf_pending,
                    result, should_exit, monitor_vars, sent, results >>

\* The hours should_stop_betting may find elapsed: it reads the clock only
\* when it gets as far as the session time limit and the limit is enabled
ClockReadings(cfg, e, elapsed) ==
    IF cfg.enable_session_time_limit /\ ~ShouldStopBetting(cfg, e, 0)[1]
    THEN elapsed..MaxHours
    ELSE {elapsed}

\* The head of a cycle: while not should_exit, should_stop_betting,
\* is_verification_active
LoopCheck ==
    /\ pc = "loop"
    /\ \E now \in ClockReadings(config, Engine, session_hours) :
          LET stop == ShouldStopBetting(config, Engine, now)
          IN  /\ session_hours' = now
              /\ IF should_exit
                 THEN pc' = "finished" /\ stop_reason' = "Shutdown requested"
                 ELSE IF stop[1]
                 THEN pc' = "finished" /\ stop_reason' = stop[2]
                 ELSE IF verification_detected
                 THEN pc' = "wait_loop" /\ UNCHANGED stop_reason
                 ELSE pc' = "cash" /\ UNCHANGED stop_reason
    /\ UNCHANGED << config, final_report, session_ends, wait_timed_out, engine_vars, calc_bet, bet_amount, cf_pending,
                    result, should_exit, monitor_vars, history_vars >>

\* wait_for_verification_resolution: the while loop ends when the flag is
\* seen clear (the clock is then not read: the timeout may or may not have
\* elapsed during the last sleep) or, with the flag active, when the
\* timeout has elapsed
WaitLoopEnds ==
    /\ pc = "wait_loop"
    /\ pc' = "wait_return"
    /\ wait_timed_out' \in IF verification_detected THEN {TRUE} ELSE BOOLEAN
    /\ UNCHANGED << config, final_report, session_ends, engine_vars, session_hours, calc_bet, bet_amount,
                    cf_pending, result, stop_reason, should_exit,
                    monitor_vars, history_vars >>

\* Mutant of WaitReturns: the strategy loop resumes whatever the flag says
WaitReturnsResuming ==
    /\ pc = "wait_return"
    /\ pc' = "cash"
    /\ wait_timed_out' = FALSE
    /\ UNCHANGED << config, final_report, session_ends, engine_vars, session_hours, calc_bet, bet_amount,
                    cf_pending, result, stop_reason, should_exit, monitor_vars,
                    history_vars >>

\* Mutant of WaitReturns: the wait acknowledges the challenge by clearing
\* the flag
WaitReturnsClearingFlag ==
    /\ pc = "wait_return"
    /\ IF verification_detected
       THEN pc' = "finished" /\ stop_reason' = "Verification timeout"
       ELSE pc' = "cash" /\ UNCHANGED stop_reason
    /\ wait_timed_out' = FALSE
    /\ verification_detected' = FALSE
    /\ UNCHANGED << config, final_report, session_ends, engine_vars, session_hours, calc_bet, bet_amount,
                    cf_pending, result, should_exit, should_stop_monitoring,
                    monitor_alive, mon_pc, mon_found, alert_vars, late_vars,
                    history_vars >>

\* wait_for_verification_resolution: the flag is read again for the result;
\* False stops the strategy loop
WaitReturns ==
    /\ pc = "wait_return"
    /\ IF verification_detected
       THEN pc' = "finished" /\ stop_reason' = "Verification timeout"
       ELSE pc' = "cash" /\ UNCHANGED stop_reason
    /\ wait_timed_out' = FALSE
    /\ UNCHANGED << config, final_report, session_ends, engine_vars, session_hours, calc_bet, bet_amount,
                    cf_pending, result, should_exit, monitor_vars,
                    history_vars >>

\* check_cash, calculate_bet_amount and the clamp to the balance
CycleCashCheckOn(batches) ==
    /\ pc = "cash"
    /\ \E messages \in batches :
          LET r == CheckCash(config, Engine, messages)
              bet == CalculateBetAmount(config, r.engine)
          IN  /\ SetEngine(r.engine)
              /\ cash_reads' = IF r.found THEN cash_reads + 1 ELSE cash_reads
              /\ IF r.ret <= 0
                 THEN /\ pc' = "finished"
                      /\ stop_reason' = "Insufficient funds to continue"
                      /\ UNCHANGED << calc_bet, bet_amount >>
                 ELSE /\ pc' = "bet"
                      /\ calc_bet' = bet
                      /\ bet_amount' = ClampToCash(bet, r.ret)
                      /\ UNCHANGED stop_reason
    /\ UNCHANGED << config, final_report, session_ends, wait_timed_out, session_hours, cf_pending, result, should_exit,
                    monitor_vars, sent, results >>

\* place_coinflip_bet up to the command sent
SendWager(limit) ==
    /\ pc = "bet"
    /\ total_bets < limit
    /\ SetEngine(PlaceBet(Engine, bet_amount))
    /\ sent' = Append(sent, bet_amount)
    /\ pc' = "cf_first"
    /\ UNCHANGED << config, final_report, session_ends, wait_timed_out, session_hours, calc_bet, bet_amount, cf_pending,
                    result, stop_reason, should_exit, monitor_vars,
                    cash_reads, results >>

\* place_coinflip_bet returns: the outcome is recorded and the strategy
\* loop goes on to its next cycle (after None by continue, otherwise after
\* the delays)
Return(outcome) ==
    /\ SetEngine(RecordOutcome(Engine, outcome))
    /\ result' = outcome
    /\ results' = Append(results, outcome)
    /\ cf_pending' = 0
    /\ pc' = "loop"

\* The first read (5 messages): every "spent ... coin spins" message of it
\* triggers one re-read
FirstRead ==
    /\ pc = "cf_first"
    /\ \E messages \in CoinflipBatches(current_bet) :
          LET n == Cardinality({i \in 1..Len(messages) : IsCoinflip(messages[i])})
          IN  /\ cf_pending' = n
              /\ pc' = IF n = 0 THEN "cf_final" ELSE "cf_updated"
    /\ UNCHANGED << config, final_report, session_ends, wait_timed_out, engine_vars, session_hours, calc_bet, bet_amount,
                    result, stop_reason, should_exit, monitor_vars,
                    history_vars >>

\* Mutant of UpdatedRead: a re-read without a marker returns None at once
UpdatedReadGivingUp ==
    /\ pc = "cf_updated"
    /\ \E updated \in CoinflipBatches(current_bet) :
          Return(UpdatedOutcome(updated))
    /\ UNCHANGED << config, final_report, session_ends, wait_timed_out, session_hours,
                    calc_bet, bet_amount, stop_reason, should_exit,
                    monitor_vars, cash_reads, sent >>

\* One re-read (5 messages) and its scan for a marker
UpdatedRead ==
    /\ pc = "cf_updated"
    /\ \E updated \in CoinflipBatches(current_bet) :
          LET outcome == UpdatedOutcome(updated)
          IN  IF outcome # "unknown"
              THEN Return(outcome)
              ELSE /\ cf_pending' = cf_pending - 1
                   /\ pc' = IF cf_pending = 1 THEN "cf_final" ELSE "cf_updated"
                   /\ UNCHANGED << engine_vars, result, results >>
    /\ UNCHANGED << config, final_report, session_ends, wait_timed_out, session_hours, calc_bet, bet_amount, stop_reason,
                    should_exit, monitor_vars, cash_reads, sent >>

\* The retry (10 messages); without a result None is returned
FinalRead ==
    /\ pc = "cf_final"
    /\ \E final \in CoinflipBatches(current_bet) :
          Return(FinalOutcome(final, current_bet))
    /\ UNCHANGED << config, final_report, session_ends, wait_timed_out, session_hours, calc_bet, bet_amount, stop_reason,
                    should_exit, monitor_vars, cash_reads, sent >>

\* The strategy loop has ended: run_betting_strategy's finally logs the
\* statistics, then run()'s finally: shutdown -> stop_monitoring
Shutdown ==
    /\ pc = "finished"
    /\ pc' = "exited"
    /\ final_report' = TRUE
    /\ session_ends' = session_ends + 1
    /\ should_stop_monitoring' = TRUE
    /\ UNCHANGED << config, wait_timed_out, engine_vars, session_hours, calc_bet, bet_amount,
                    cf_pending, result, stop_reason, should_exit,
                    verification_detected, monitor_alive, mon_pc, mon_found,
                    alert_vars, late_vars, history_vars >>

\* Mutant of Signal: SystemExit leaves run_betting_strategy without its
\* finally clause
SignalWithoutReport ==
    /\ pc # "exited"
    /\ should_exit' = TRUE
    /\ should_stop_monitoring' = TRUE
    /\ pc' = "exited"
    /\ UNCHANGED << config, final_report, session_ends, wait_timed_out, engine_vars,
                    session_hours, calc_bet, bet_amount, cf_pending, result,
                    stop_reason,
                    verification_detected, monitor_alive, mon_pc, mon_found,
                    alert_vars, late_vars, history_vars >>

\* _signal_handler: should_exit, shutdown(), sys.exit(0), wherever the main
\* thread is; SystemExit unwinds through run_betting_strategy's finally
\* (log_statistics) when the signal arrives inside it, and through run()'s
\* finally (shutdown again: the driver is closed already, the session end
\* is logged again)
Signal ==
    /\ pc # "exited"
    /\ should_exit' = TRUE
    /\ should_stop_monitoring' = TRUE
    /\ pc' = "exited"
    /\ session_ends' = session_ends + 2
    /\ final_report' = IF pc = "services" THEN final_report ELSE TRUE
    /\ UNCHANGED << config, wait_timed_out, engine_vars, session_hours, calc_bet, bet_amount,
                    cf_pending, result, stop_reason, verification_detected,
                    monitor_alive, mon_pc, mon_found, alert_vars, late_vars,
                    history_vars >>

\* A statement of the loop body raises (a call outside the try blocks of
\* check_cash and place_coinflip_bet): the except clause of
\* run_betting_strategy, which encloses the while loop, logs the error
CycleRaises ==
    /\ pc \in {"cash", "bet"}
    /\ pc' = "finished"
    /\ stop_reason' = "Error in betting strategy"
    /\ UNCHANGED << config, final_report, session_ends, wait_timed_out, engine_vars,
                    session_hours, calc_bet, bet_amount, cf_pending, result,
                    should_exit, monitor_vars, history_vars >>

----------------------------------------------------------------------------
(* The monitor thread: VerificationMonitor._monitor_loop *)

\* One iteration of the poll loop with alerts disabled: the test of the
\* stop flag, the check and the update of the flag in one step
MonitorPoll ==
    /\ monitor_alive
    /\ pc # "exited"
    /\ ~should_stop_monitoring
    /\ ~config.enable_verification_alerts
    /\ \E messages \in MonitorBatches :
          LET found == CheckForVerification(config, messages)
          IN  /\ mon_found' = found
              /\ verification_detected' = PolledFlag(verification_detected, found)
    /\ UNCHANGED << config, final_report, session_ends, wait_timed_out, engine_vars, session_hours, pc,
                    calc_bet, bet_amount, cf_pending, result, stop_reason,
                    should_exit, should_stop_monitoring, monitor_alive,
                    mon_pc, alert_vars, late_vars, history_vars >>

\* The poll loop sees should_stop_monitoring and ends
MonitorStops ==
    /\ monitor_alive
    /\ should_stop_monitoring
    /\ monitor_alive' = FALSE
    /\ mon_pc' = "off"
    /\ UNCHANGED << config, final_report, session_ends, wait_timed_out, engine_vars, session_hours, pc,
                    calc_bet, bet_amount, cf_pending, result, stop_reason,
                    should_exit, verification_detected,
                    should_stop_monitoring, mon_found, alert_vars, late_vars,
                    history_vars >>

----------------------------------------------------------------------------
(* The chat's balance *)

InitialCashCheck == InitialCashCheckOn(CashBatches(Balances))
CycleCashCheck == CycleCashCheckOn(CashBatches(Balances))
PlaceWager == SendWager(MaxBets)

Next ==
    \/ StartBotServices
    \/ InitialCashCheck
    \/ LoopCheck
    \/ WaitLoopEnds
    \/ WaitReturns
    \/ CycleCashCheck
    \/ PlaceWager
    \/ FirstRead
    \/ UpdatedRead
    \/ FinalRead
    \/ Shutdown
    \/ Signal
    \/ MonitorPoll
    \/ MonitorStops

Spec == Init /\ [][Next]_vars

----------------------------------------------------------------------------
(* The worked scenario: the chat shows the balance that follows from the   *)
(* outcomes recorded so far (a win pays the stake, a loss takes it)        *)

RECURSIVE Settled(_)
\* The net effect of the first n recorded outcomes on the balance
Settled(n) ==
    IF n = 0 THEN 0
    ELSE Settled(n - 1)
           + (CASE results[n] = "win"  -> sent[n]
                [] results[n] = "loss" -> 0 - sent[n]
                [] OTHER               -> 0)

LedgerBalances == {start + Settled(Len(results)) : start \in ScenarioBalances}

ScenarioInitialCashCheck == InitialCashCheckOn(CashBatches(LedgerBalances))
ScenarioCycleCashCheck == CycleCashCheckOn(CashBatches(LedgerBalances))
ScenarioPlaceWager == SendWager(ScenarioBets)

ScenarioNext ==
    \/ StartBotServices
    \/ ScenarioInitialCashCheck
    \/ LoopCheck
    \/ WaitLoopEnds
    \/ WaitReturns
    \/ ScenarioCycleCashCheck
    \/ ScenarioPlaceWager
    \/ FirstRead
    \/ UpdatedRead
    \/ FinalRead
    \/ Shutdown
    \/ Signal
    \/ MonitorPoll
    \/ MonitorStops

ScenarioSpec == ScenarioInit /\ [][ScenarioNext]_vars

----------------------------------------------------------------------------
(* The monitor and alert threads, step by step                             *)

\* The main thread's variables: no step of the monitor or alert thread
\* changes them
main_vars == << config, final_report, session_ends, engine_vars, session_hours, pc, calc_bet, bet_amount,
                cf_pending, result, stop_reason, should_exit,
                should_stop_monitoring, wait_timed_out, history_vars >>

\* _monitor_loop: while not self.should_stop_monitoring
MonitorTest ==
    /\ mon_pc = "head"
    /\ IF should_stop_monitoring
       THEN mon_pc' = "off" /\ monitor_alive' = FALSE
       ELSE mon_pc' = "check" /\ UNCHANGED monitor_alive
    /\ UNCHANGED << main_vars, verification_detected, mon_found, alert_vars,
                    late_vars >>

\* Mutant of AlertThreadStarts: a thread is started whether or not one is
\* alive
AlertThreadStartsAnyway(alive) == TRUE

\* _start_alert_system: a new thread unless the alert thread is alive
AlertThreadStarts(alive) == ~alive

\* _monitor_loop: check_for_verification, the update of the flag,
\* _start_alert_system on Idle -> Detected (a new thread unless one is
\* alive) and the sleep
MonitorCheck ==
    /\ mon_pc = "check"
    /\ \E messages \in MonitorBatches :
          LET found == CheckForVerification(config, messages)
          IN  /\ mon_found' = found
              /\ verification_detected' = PolledFlag(verification_detected, found)
              /\ IF /\ found
                    /\ ~verification_detected
                    /\ config.enable_verification_alerts
                    /\ AlertThreadStarts(alert_pc # "off")
                 THEN alert_pc' = "head" /\ ping_count' = 0 /\ alerts_sent' = 0
                 ELSE UNCHANGED alert_vars
    /\ mon_pc' = "head"
    /\ mon_late' = IF should_stop_monitoring THEN mon_late + 1 ELSE mon_late
    /\ UNCHANGED << main_vars, monitor_alive, alert_late >>

\* _alert_loop: the while condition; past it the loop ends
AlertTest ==
    /\ alert_pc = "head"
    /\ alert_pc' = IF AlertMayContinue(should_stop_monitoring, ping_count)
                   THEN "check" ELSE "exit"
    /\ UNCHANGED << main_vars, verification_detected, monitor_alive, mon_pc,
                    mon_found, ping_count, alerts_sent, late_vars >>

\* Mutant of AlertCheck: a check that finds no challenge goes on to the
\* next iteration
AlertCheckGoingOn ==
    /\ alert_pc = "check"
    /\ \E messages \in MonitorBatches :
          IF CheckForVerification(config, messages)
          THEN /\ ping_count' = ping_count + 1
               /\ alerts_sent' = alerts_sent + 1
          ELSE UNCHANGED << ping_count, alerts_sent >>
    /\ alert_pc' = "head"
    /\ alert_late' = IF should_stop_monitoring THEN alert_late + 1 ELSE alert_late
    /\ UNCHANGED << main_vars, verification_detected, monitor_alive, mon_pc,
                    mon_found, mon_late >>

\* _alert_loop: check_for_verification; a challenge found is counted and
\* alerted (send_command, then the sleep), none found clears the flag and
\* ends the loop
AlertCheck ==
    /\ alert_pc = "check"
    /\ \E messages \in MonitorBatches :
          IF CheckForVerification(config, messages)
          THEN /\ ping_count' = ping_count + 1
               /\ alerts_sent' = alerts_sent + 1
               /\ alert_pc' = "head"
               /\ UNCHANGED verification_detected
          ELSE /\ verification_detected' = FALSE
               /\ alert_pc' = "exit"
               /\ UNCHANGED << ping_count, alerts_sent >>
    /\ alert_late' = IF should_stop_monitoring THEN alert_late + 1 ELSE alert_late
    /\ UNCHANGED << main_vars, monitor_alive, mon_pc, mon_found, mon_late >>

\* _alert_loop returns and the thread is no longer alive
AlertExit ==
    /\ alert_pc = "exit"
    /\ alert_pc' = "off"
    /\ UNCHANGED << main_vars, verification_detected, monitor_alive, mon_pc,
                    mon_found, ping_count, alerts_sent, late_vars >>

\* The configurations explored with the alert thread
MonitorConfigs == {DefaultConfig}

MonitorInit == InitWith(MonitorConfigs)

MonitorInitialCashCheck == InitialCashCheckOn(CashBatches(ScenarioBalances))
MonitorCycleCashCheck == CycleCashCheckOn(CashBatches(ScenarioBalances))
MonitorPlaceWager == SendWager(MonitorBets)

MonitorNext ==
    \/ StartBotServices
    \/ MonitorInitialCashCheck
    \/ LoopCheck
    \/ WaitLoopEnds
    \/ WaitReturns
    \/ MonitorCycleCashCheck
    \/ MonitorPlaceWager
    \/ FirstRead
    \/ UpdatedRead
    \/ FinalRead
    \/ Shutdown
    \/ Signal
    \/ CycleRaises
    \/ MonitorTest
    \/ MonitorCheck
    \/ AlertTest
    \/ AlertCheck
    \/ AlertExit

MonitorSpec == MonitorInit /\ [][MonitorNext]_vars

----------------------------------------------------------------------------
(* Properties *)

\* A wager has been stored by place_coinflip_bet in the current cycle and
\* current_cash is still the balance read in that cycle
WagerPlaced == total_bets > 0 /\ pc \in {"cf_first", "cf_updated", "cf_final", "loop"}

\* No bet is in flight
BetweenBets == Len(sent) = Len(results)

Count(outcome) == Cardinality({i \in 1..Len(results) : results[i] = outcome})

RECURSIVE TrailingLosses(_)
\* Losses among the first n outcomes that no later win among them follows
TrailingLosses(n) ==
    IF n = 0 THEN 0
    ELSE CASE results[n] = "win"  -> 0
           [] results[n] = "loss" -> TrailingLosses(n - 1) + 1
           [] OTHER               -> TrailingLosses(n - 1)

RECURSIVE LastResolved(_)
\* The last of the first n outcomes that is a win or a loss, "none" if none
LastResolved(n) ==
    IF n = 0 THEN "none"
    ELSE IF results[n] \in {"win", "loss"} THEN results[n]
    ELSE LastResolved(n - 1)

AnyRiskFlag == stop_loss_triggered \/ profit_target_reached \/ max_losses_reached

\* C1 as stated: every wager stored as current_bet is at least
\* betting.min_bet_amount, whatever the balance and the configuration.
C1_WagerAtLeastMinimum ==
    WagerPlaced => current_bet >= config.min_bet_amount

\* The balance and, when the limit is enabled, the max-bet cap are at least
\* the minimum bet
MinimumAffordable ==
    /\ current_cash >= config.min_bet_amount
    /\ config.enable_max_bet_limit =>
          current_cash * config.max_bet_percentage >= config.min_bet_amount * 100

\* C1, amended: the wager stored as current_bet is at least
\* betting.min_bet_amount whenever the balance read in the cycle and, with
\* the max-bet limit enabled, the cap balance * max_bet_percentage / 100 are
\* both at least the minimum bet.
C1_WagerAtLeastAffordableMinimum ==
    (WagerPlaced /\ MinimumAffordable) => current_bet >= config.min_bet_amount

\* C1 witness: a new cycle whose percentage bet is below the minimum bet was
\* lifted to the minimum and sent.
C1_Witness ==
    /\ pc = "cf_first"
    /\ MinimumAffordable
    /\ consecutive_losses = 0
    /\ current_cash * config.initial_bet_percentage < config.min_bet_amount * 100
    /\ current_bet = config.min_bet_amount

\* C2 as stated: the number of consecutive losses never exceeds
\* betting.max_consecutive_losses.
C2_LossesWithinMaximum ==
    consecutive_losses <= config.max_consecutive_losses

\* C3: each risk flag is one-way; no step of the session takes a flag that
\* is true back to false.
C3_FlagsOneWay ==
    [][ /\ stop_loss_triggered => stop_loss_triggered'
        /\ profit_target_reached => profit_target_reached'
        /\ max_losses_reached => max_losses_reached' ]_vars

\* C3 witness: the max-losses flag is still set after a win has taken the
\* loss streak back below the threshold.
C3_Witness ==
    /\ max_losses_reached
    /\ consecutive_losses < config.max_consecutive_losses
    /\ results # << >>
    /\ results[Len(results)] = "win"

\* C4: consecutive_losses is the number of losses recorded since the last
\* recorded win (unknown outcomes skipped); it is 0 exactly when the last
\* resolved bet was a win or no bet has resolved.
C4_LossStreakIsTrailingRun ==
    /\ consecutive_losses = TrailingLosses(Len(results))
    /\ consecutive_losses = 0 <=> LastResolved(Len(results)) \in {"win", "none"}

\* C4 witness: a loss, an unknown outcome and another loss leave a streak
\* of two.
C4_Witness ==
    /\ results = <<"loss", "unknown", "loss">>
    /\ consecutive_losses = 2

\* C5: between bets total_bets is the number of wagers sent and equals
\* total_wins + total_losses + the number of unknown outcomes; the wins and
\* losses counted are the wins and losses returned.
C5_BetsAccountedFor ==
    BetweenBets =>
        /\ total_bets = Len(sent)
        /\ total_wins = Count("win")
        /\ total_losses = Count("loss")
        /\ total_bets = total_wins + total_losses + Count("unknown")

\* C5 witness: three bets, one won, one lost, one unknown.
C5_Witness ==
    /\ BetweenBets
    /\ total_bets = 3
    /\ Count("win") = 1
    /\ Count("loss") = 1
    /\ Count("unknown") = 1

\* place_coinflip_bet returns None in this step
ReturnsUnknown ==
    /\ Len(results') = Len(results) + 1
    /\ results'[Len(results')] = "unknown"

\* C6: a bet that returns Unknown leaves total_wins, total_losses and
\* consecutive_losses unchanged, and the strategy loop goes on to its next
\* cycle.
C6_UnknownChangesNoCounter ==
    [][ ReturnsUnknown =>
          /\ total_wins' = total_wins
          /\ total_losses' = total_losses
          /\ consecutive_losses' = consecutive_losses
          /\ pc' = "loop" ]_vars

\* C6 witness: after an unknown outcome in a loss streak the loop has read
\* the balance again and is about to bet.
C6_Witness ==
    /\ pc = "bet"
    /\ results # << >>
    /\ results[Len(results)] = "unknown"
    /\ consecutive_losses > 0

\* The inputs of calculate_bet_amount, in hundredths
RawBet ==
    IF consecutive_losses = 0
    THEN current_cash * config.initial_bet_percentage
    ELSE current_bet * config.loss_multiplier_tenths * 10
MinBet == config.min_bet_amount * 100
CapBet == current_cash * config.max_bet_percentage

ClampedReference ==
    IF config.enable_max_bet_limit /\ (CapBet <= RawBet \/ CapBet <= MinBet)
    THEN CapBet
    ELSE IF RawBet >= MinBet THEN RawBet ELSE MinBet

ThreeLossesThenWin ==
    /\ Len(results) >= 4
    /\ SubSeq(results, 1, 4) = <<"loss", "loss", "loss", "win">>

\* C8 as stated: the wagers are 10, 25, 63 and 158.
C8_WagersHalfUp ==
    ThreeLossesThenWin => SubSeq(sent, 1, 4) = <<10, 25, 63, 158>>

\* C8, amended: from a balance of 1000 with a 1 % initial bet and multiplier
\* 2.5, three losses and a win produce the wagers 10, 25, 62 (62.5 rounded
\* half to even) and 155 (62 * 2.5); the win resets consecutive_losses to 0
\* and the next wager is 1 % of the updated balance 1058, rounded: 11.
C8_WagersHalfEven ==
    ThreeLossesThenWin =>
        /\ SubSeq(sent, 1, 4) = <<10, 25, 62, 155>>
        /\ Len(results) = 4 => consecutive_losses = 0
        /\ Len(sent) >= 5 => sent[5] = 11

\* C8 witness: the fifth wager has been sent after three losses and a win.
C8_Witness ==
    /\ ThreeLossesThenWin
    /\ Len(sent) = 5

StopNow == ShouldStopBetting(config, Engine, session_hours)

TimeIsUp ==
    /\ config.enable_session_time_limit
    /\ session_hours >= config.session_time_limit_hours

\* C9 as stated, its last part: whenever the recorded balance has reached 0,
\* should_stop_betting returns (true, "Insufficient funds").
C9_ZeroBalanceIsInsufficientFunds ==
    (cash_reads > 0 /\ current_cash <= 0) =>
        StopNow = <<TRUE, "Insufficient funds">>

\* C9, amended: should_stop_betting returns true with the first applicable
\* reason in the order stop-loss flag, profit-target flag, max-losses flag,
\* non-positive balance, session time limit, and false otherwise; with a
\* balance of 0 the reason is "Insufficient funds" only when no risk flag
\* is set.
C9_FirstApplicableReason ==
    /\ StopNow[1] = (AnyRiskFlag \/ current_cash <= 0 \/ TimeIsUp)
    /\ stop_loss_triggered => StopNow[2] = "Stop loss triggered"
    /\ (~stop_loss_triggered /\ profit_target_reached) =>
          StopNow[2] = "Profit target reached"
    /\ (~stop_loss_triggered /\ ~profit_target_reached /\ max_losses_reached) =>
          StopNow[2] = "Maximum consecutive losses reached"
    /\ (~AnyRiskFlag /\ current_cash <= 0) => StopNow[2] = "Insufficient funds"
    /\ (~AnyRiskFlag /\ current_cash > 0 /\ TimeIsUp) =>
          StopNow[2] = "Session time limit reached"
    /\ ~StopNow[1] => StopNow[2] = ""
    /\ pc = "finished" =>
          stop_reason \in {StopNow[2], "No cowoncy detected",
                           "Insufficient funds to continue",
                           "Verification timeout"}

\* C9 witness: a balance of 0 was read and no risk flag is set.
C9_Witness ==
    /\ cash_reads > 0
    /\ current_cash <= 0
    /\ ~AnyRiskFlag
    /\ StopNow = <<TRUE, "Insufficient funds">>

\* C10: starting_balance is set by the first successful balance read and
\* by no later one.
C10_StartingBalanceSetOnce ==
    [][ /\ (cash_reads = 0 /\ cash_reads' = 1) => starting_balance' = current_cash'
        /\ cash_reads = cash_reads' => starting_balance' = starting_balance
        /\ cash_reads >= 1 => starting_balance' = starting_balance ]_vars

\* C10 witness: a later read returned another balance and starting_balance
\* still holds the first one.
C10_Witness ==
    /\ cash_reads >= 2
    /\ starting_balance > 0
    /\ current_cash # starting_balance

\* C11: in every reachable state total_profit equals current_cash -
\* starting_balance (possibly negative); every successful balance read
\* leaves the equality established.
C11_ProfitIsCashMinusStart ==
    total_profit = current_cash - starting_balance

\* C11 witness: a second read returned less than the starting balance and
\* the profit is negative.
C11_Witness ==
    /\ cash_reads >= 2
    /\ starting_balance > 0
    /\ total_profit < 0

\* C12: with starting_balance > 0, after a successful read the stop-loss
\* flag is set if the feature is enabled and the loss in percent of the
\* starting balance is at least stop_loss_percentage, the profit-target flag
\* is set if the feature is enabled and the profit in percent of the
\* starting balance is at least profit_target_percentage; the flag of a
\* disabled feature is never set.
C12_RiskFlagsFollowReads ==
    /\ (/\ starting_balance > 0
        /\ config.enable_stop_loss
        /\ (starting_balance - current_cash) * 100
              >= config.stop_loss_percentage * starting_balance)
          => stop_loss_triggered
    /\ (/\ starting_balance > 0
        /\ config.enable_profit_target
        /\ total_profit * 100
              >= config.profit_target_percentage * starting_balance)
          => profit_target_reached
    /\ ~config.enable_stop_loss => ~stop_loss_triggered
    /\ ~config.enable_profit_target => ~profit_target_reached

\* C12 witness: a read took the balance below the stop-loss threshold and
\* the flag is set.
C12_Witness ==
    /\ config.enable_stop_loss
    /\ starting_balance > 0
    /\ current_cash > 0
    /\ (starting_balance - current_cash) * 100
          >= config.stop_loss_percentage * starting_balance
    /\ stop_loss_triggered

\* A wager of this cycle is in flight
WagerInFlight == pc \in {"cf_first", "cf_updated", "cf_final"}

\* C13: every wager sent by the strategy loop is at most the balance read
\* by check_cash in the same cycle.
C13_WagerWithinBalance ==
    WagerInFlight =>
        /\ sent[Len(sent)] <= current_cash
        /\ current_bet = sent[Len(sent)]

\* C13 witness: the calculated bet exceeded the balance read and the whole
\* balance was sent.
C13_Witness ==
    /\ pc = "cf_first"
    /\ calc_bet > current_cash
    /\ sent[Len(sent)] = current_cash

\* The strategy loop is at the head of a cycle or inside
\* wait_for_verification_resolution
AtCycleHead == pc \in {"loop", "wait_loop", "wait_return"}

\* The strategy loop has ended
LoopEnded == pc \in {"finished", "exited"}

\* C14: a cycle that reads the challenge flag as active sends no wager
\* until wait_for_verification_resolution has returned true; if the call
\* returns false the loop stops and no further wager is ever sent.
C14_NoWagerWhileChallenged ==
    [][ /\ (pc = "loop" /\ verification_detected) =>
              pc' \in {"loop", "wait_loop", "finished", "exited"}
        /\ pc \in {"wait_loop", "wait_return"} =>
              /\ sent' = sent
              /\ pc' \in {"wait_loop", "wait_return", "cash", "finished", "exited"}
        /\ pc' = "cash" =>
              \/ pc = "cash"
              \/ pc = "loop" /\ ~verification_detected
              \/ pc = "wait_return" /\ ~verification_detected
        /\ (pc = "wait_return" /\ verification_detected) =>
              /\ pc' \in {"wait_return", "finished", "exited"}
              /\ pc' = "finished" => stop_reason' = "Verification timeout"
        /\ LoopEnded => (sent' = sent /\ pc' \in {"finished", "exited"}) ]_vars

\* C14 witness: after a wager the loop read the flag as active, the wait
\* returned false and the loop has stopped.
C14_Witness ==
    /\ pc = "finished"
    /\ stop_reason = "Verification timeout"
    /\ Len(sent) = 1
    /\ verification_detected

\* C15 as stated, its first part: wait_for_verification_resolution returns
\* false only if the timeout has elapsed.
C15_FalseOnlyAfterTimeout ==
    [][ (pc = "wait_return" /\ pc' = "finished") => wait_timed_out ]_vars

\* C16: verification_detected is written only by steps of the monitor
\* thread and of the alert thread; every step of the main thread (the
\* strategy loop, is_verification_active, wait_for_verification_resolution)
\* leaves it unchanged.
C16_FlagWrittenByMonitorOnly ==
    [][ /\ main_vars' # main_vars =>
              verification_detected' = verification_detected
        /\ verification_detected' # verification_detected =>
              \/ mon_pc = "check" /\ mon_pc' = "head"
              \/ alert_pc = "check" /\ alert_pc' = "exit" ]_vars

\* C16 witness: the monitor set the flag while the main thread was between
\* the two reads of wait_for_verification_resolution.
C16_Witness ==
    /\ pc = "wait_return"
    /\ ~wait_timed_out
    /\ verification_detected

\* C17: when an iteration of the poll loop completes, the flag equals the
\* result of that iteration's check_for_verification; between polls the
\* flag differs from the last result only because the alert thread cleared
\* it, and the next poll sets it to its own result again.
C17_FlagFollowsPoll ==
    [][ /\ (mon_pc = "check" /\ mon_pc' = "head") =>
              verification_detected' = mon_found'
        /\ verification_detected' # mon_found' =>
              /\ mon_found'
              /\ config.enable_verification_alerts
              /\ alert_pc' \in {"exit", "off"} ]_vars

\* C17 witness: the last poll found the challenge and the alert thread has
\* cleared the flag since.
C17_Witness ==
    /\ mon_pc = "head"
    /\ mon_found
    /\ ~verification_detected
    /\ alerts_sent > 0

\* C18: one run of the alert loop sends at most max_pings alerts: the
\* counter starts at 0 for each run, counts the alerts sent, and no check
\* is made or alert sent once it has reached the cap.
C18_AlertsCapped ==
    [][ /\ alerts_sent' <= max_pings
        /\ alerts_sent' = ping_count'
        /\ alert_pc' = "check" => ping_count' < max_pings
        /\ (alert_pc = "off" /\ alert_pc' # "off") =>
              (ping_count' = 0 /\ alerts_sent' = 0)
        /\ alerts_sent' \in {alerts_sent, alerts_sent + 1, 0} ]_vars

\* C18 witness: a run of the alert loop has ended after max_pings alerts.
C18_Witness ==
    /\ alert_pc = "off"
    /\ alerts_sent = max_pings

\* The last run of the alert loop ended at the cap
Capped == ping_count = max_pings /\ alert_pc \in {"exit", "off"}

C20_ThreadsStopAfterCurrentIteration ==
    [][ /\ should_stop_monitoring => should_stop_monitoring'
        /\ (mon_pc = "head" /\ should_stop_monitoring /\ mon_pc' # mon_pc) =>
              mon_pc' = "off"
        /\ (alert_pc = "head" /\ should_stop_monitoring /\ alert_pc' # alert_pc) =>
              alert_pc' = "exit"
        /\ (should_stop_monitoring /\ alerts_sent' # alerts_sent) =>
              (alert_late = 0 \/ alert_pc = "off")
        /\ mon_late' <= 1
        /\ alert_late' <= 1 ]_vars

\* C20 witness: both threads made one more check after the stop request
\* and have ended.
C20_Witness ==
    /\ should_stop_monitoring
    /\ mon_late = 1
    /\ alert_late = 1
    /\ mon_pc = "off"
    /\ alert_pc = "off"

\* C21 as stated: an exception raised in a betting cycle abandons only
\* that cycle; the strategy loop does not end on it.
C21_ExceptionDoesNotEndLoop ==
    stop_reason = "Error in betting strategy" => ~LoopEnded

\* C22 as stated: a balance that is not found ends no session; the loop
\* leaves its balance check for the end only with a balance read.
C22_MissingBalanceDoesNotEndLoop ==
    [][ (pc = "cash" /\ pc' = "finished") => cash_reads' = cash_reads + 1 ]_vars

\* C23: once run_betting_strategy has started, whatever ends it (stop
\* condition, verification timeout, unreadable balance, exception, signal),
\* the final statistics are logged before the process exits.
C23_ReportBeforeExit ==
    [][ (pc' = "exited" /\ pc \notin {"services", "exited"}) => final_report' ]_vars

\* C23 witness: a signal ended the process while a wager was in flight and
\* the statistics were logged.
C23_Witness ==
    /\ pc = "exited"
    /\ should_exit
    /\ final_report
    /\ Len(sent) > Len(results)

\* C24 as stated: the shutdown of the monitor begins only after the
\* strategy loop has ended (a signal only sets should_exit and the cycle in
\* flight runs to completion).
C24_ShutdownOnlyBetweenCycles ==
    [][ /\ (~should_stop_monitoring /\ should_stop_monitoring') => pc = "finished"
        /\ (~should_exit /\ should_exit') => pc' = pc ]_vars

\* A bet of 100 is in flight
BetOfHundred == WagerInFlight /\ current_bet = 100

\* C25 as stated: for a bet of 100, a batch whose only relevant message is
\* "You won **200**!!" yields Win, one holding "...lost it all..." yields
\* Loss and unrelated text yields Unknown.
C25_IsolatedMarkersDecide ==
    BetOfHundred =>
        /\ BetOutcome(<<BareWinText(current_bet)>>, current_bet) = "win"
        /\ BetOutcome(<<BareLossText>>, current_bet) = "loss"
        /\ BetOutcome(<<Noise>>, current_bet) = "unknown"

\* C25, amended: for a bet of 100, a message holding the spend and spin
\* phrases and "you won **200**!!" yields Win and one holding them and
\* "lost it all" yields Loss; a "lost it all" message that names the amount
\* 100 yields Loss in the retry; "You won **200**!!" or "lost it all" on its
\* own (no spend/spin phrase, no "100") and unrelated text yield Unknown,
\* which changes no counter.
C25_MarkersDecideInContext ==
    BetOfHundred =>
        /\ BetOutcome(<<WinMsg(current_bet)>>, current_bet) = "win"
        /\ BetOutcome(<<LossMsg(current_bet)>>, current_bet) = "loss"
        /\ BetOutcome(<<BareLossMsg(current_bet)>>, current_bet) = "loss"
        /\ BetOutcome(<<BareWinText(current_bet)>>, current_bet) = "unknown"
        /\ BetOutcome(<<BareLossText>>, current_bet) = "unknown"
        /\ BetOutcome(<<Noise>>, current_bet) = "unknown"
        /\ RecordOutcome(Engine, "unknown") = Engine

\* C25 witness: a bet of 100 has been sent and its outcome is to be read.
C25_Witness ==
    /\ pc = "cf_first"
    /\ current_bet = 100
    /\ sent[Len(sent)] = 100

\* The outcome appended by this step, "none" if none
Returned ==
    IF Len(results') = Len(results) + 1 THEN results'[Len(results')] ELSE "none"

\* C26: place_coinflip_bet returns None only from its retry: a primary read
\* without an outcome is followed by the final fetch, and a win or loss
\* found there is counted like one found in the primary read.
C26_UnknownOnlyAfterRetry ==
    [][ /\ Returned = "unknown" => pc = "cf_final"
        /\ (pc \in {"cf_first", "cf_updated"} /\ Returned = "none" /\ pc' # pc) =>
              pc' \in {"cf_updated", "cf_final", "exited"}
        /\ Returned = "win" =>
              /\ pc \in {"cf_updated", "cf_final"}
              /\ total_wins' = total_wins + 1
              /\ total_losses' = total_losses
              /\ consecutive_losses' = 0
        /\ Returned = "loss" =>
              /\ pc \in {"cf_updated", "cf_final"}
              /\ total_losses' = total_losses + 1
              /\ total_wins' = total_wins
              /\ consecutive_losses' = consecutive_losses + 1 ]_vars

\* C26 witness: a bet has returned None, after its retry.
C26_Witness ==
    /\ pc = "loop"
    /\ result = "unknown"
    /\ results = <<"loss", "unknown">>

\* C27: the primary read scans for a win or loss marker only when a message
\* of the first batch holds both "spent" and "coin spins"; without one it
\* returns nothing and changes no counter.
C27_PrimaryNeedsSpendAndSpin ==
    [][ /\ pc = "cf_first" =>
              /\ results' = results
              /\ << total_wins', total_losses', consecutive_losses' >>
                    = << total_wins, total_losses, consecutive_losses >>
              /\ pc' = "cf_updated" <=> cf_pending' > 0
        /\ pc = "cf_updated" => cf_pending > 0
        /\ pc = "cf_first" =>
              \A first, updated \in CoinflipBatches(current_bet) :
                 (\A k \in 1..Len(first) :
                     ~("spent" \in first[k].phrases /\ "coin spins" \in first[k].phrases))
                   => PrimaryOutcome(first, updated) = "unknown" ]_vars

\* C27 witness: the first bet's primary read is over, nothing is recorded
\* and the retry is next.
C27_Witness ==
    /\ pc = "cf_final"
    /\ total_bets = 1
    /\ results = << >>
    /\ total_wins = 0
    /\ total_losses = 0

\* C28: check_cash takes the balance of the first message of the batch
\* (the most recent one) that carries a parsable balance; when no message
\* carries one, or the fetch failed, it returns 0 and leaves the engine as
\* it was.
C28_MostRecentBalanceOrSentinel ==
    pc \in {"start", "cash"} =>
        \A messages \in CashBatches(Balances) :
            LET r == CheckCash(config, Engine, messages)
                parsable == {i \in 1..Len(messages) : messages[i].cash # {}}
            IN  IF parsable = {}
                THEN /\ ~r.found
                     /\ r.ret = 0
                     /\ r.engine = Engine
                ELSE \E i \in parsable :
                        /\ \A j \in parsable : i <= j
                        /\ messages[i].cash = {r.ret}
                        /\ r.found
                        /\ r.engine.current_cash = r.ret

\* C28 witness: a cycle found no balance; check_cash returned 0, the loop
\* ended and the balance read before is still recorded.
C28_Witness ==
    /\ pc = "finished"
    /\ stop_reason = "Insufficient funds to continue"
    /\ current_cash > 0
    /\ ~AnyRiskFlag
    /\ total_profit = current_cash - starting_balance

\* C29: after a re-check of the alert loop finds no challenge, that run
\* sends no further alert, the flag is clear and the run ends; every other
\* re-check sends exactly one alert.
C29_AlertLoopStopsWhenClear ==
    [][ /\ (alert_pc = "check" /\ alert_pc' # alert_pc) =>
              \/ alert_pc' = "head" /\ alerts_sent' = alerts_sent + 1
              \/ /\ alert_pc' = "exit"
                 /\ alerts_sent' = alerts_sent
                 /\ ~verification_detected'
        /\ alert_pc = "exit" =>
              /\ alerts_sent' = alerts_sent
              /\ alert_pc' \in {"exit", "off"} ]_vars

\* C29 witness: a run of the alert loop has ended below the cap, after
\* some alerts, with the flag clear.
C29_Witness ==
    /\ alert_pc = "exit"
    /\ alerts_sent > 0
    /\ alerts_sent < max_pings
    /\ ~verification_detected

\* C30: with enable_verification_protection false, check_for_verification
\* returns false on every batch, no monitor or alert thread is started, the
\* flag is never set and the strategy loop never waits for a challenge.
C30_NoProtectionNoChallenge ==
    ~config.enable_verification_protection =>
        /\ \A messages \in MonitorBatches : ~CheckForVerification(config, messages)
        /\ ~monitor_alive
        /\ mon_pc = "off"
        /\ alert_pc = "off"
        /\ ~verification_detected
        /\ pc \notin {"wait_loop", "wait_return"}

\* C30 witness: with protection disabled the services are started and a
\* wager has been sent.
C30_Witness ==
    /\ ~config.enable_verification_protection
    /\ pc = "cf_first"
    /\ total_bets > 0

\* C31 as stated: no wager is in flight in a state where a risk flag is
\* true; the cycle whose balance refresh sets a flag sends none.
C31_NoWagerUnderRiskFlag ==
    WagerInFlight => ~AnyRiskFlag

\* The stake of the bet before the last one, 0 before the second bet
PreviousStake == IF Len(sent) >= 2 THEN sent[Len(sent) - 1] ELSE 0

\* The last bet placed returned None
LastBetUnresolved == results # << >> /\ results[Len(results)] = "unknown"

\* C32 as stated: after a bet whose outcome is Unknown, the bet computed
\* next is the one that would have been computed, from the same balance,
\* had the unresolved bet not been placed.
C32_UnknownDoesNotRaiseStake ==
    (pc = "bet" /\ LastBetUnresolved) =>
        calc_bet = CalculateBetAmount(config,
                       [Engine EXCEPT !.current_bet = PreviousStake])

\* C33 as stated: with a second bet of another amount in flight, a batch
\* that holds only the result message of the bet before it gives the
\* current bet no outcome, in the primary read and in the retry.
C33_EarlierMarkerNotCounted ==
    (WagerInFlight /\ PreviousStake # 0 /\ PreviousStake # current_bet) =>
        /\ BetOutcome(<<LossMsg(PreviousStake)>>, current_bet) = "unknown"
        /\ BetOutcome(<<WinMsg(PreviousStake)>>, current_bet) = "unknown"

\* C34 as stated: no wager is sent by a step taken with the challenge flag
\* active, whatever the monitor thread did since the cycle read the flag.
C34_NoWagerWithFlagActive ==
    [][ Len(sent') > Len(sent) => ~verification_detected ]_vars

\* C36 as stated: while the flag is active, a poll whose fetch failed or
\* came back empty leaves the flag active.
C36_FailedFetchKeepsFlag ==
    (mon_pc = "check" /\ verification_detected) =>
        PolledFlag(verification_detected, CheckForVerification(config, << >>))

\* C37 as stated: after stop_monitoring has returned and shutdown has gone
\* on to close the driver, neither thread makes a check or sends an alert.
C37_NoActivityAfterStop ==
    [][ pc = "exited" =>
           /\ mon_late' = mon_late
           /\ alert_late' = alert_late
           /\ alerts_sent' = alerts_sent ]_vars

\* C35 as stated: with alerts enabled and no stop requested, whenever the
\* flag is active and the last run of the alert loop did not end at the
\* cap, an alert loop is running.
C35_AlertLoopWhileFlagActive ==
    ( /\ config.enable_verification_alerts
      /\ verification_detected
      /\ ~should_stop_monitoring
      /\ ping_count < max_pings ) => alert_pc \in {"head", "check"}

\* C38: at most one poll thread and one alert thread are alive: the poll
\* thread is started once, by start_monitoring with no poll thread alive,
\* and a poll made while an alert thread is alive starts no other and
\* leaves the running loop's counter alone, so every alert sent is counted
\* by the one loop that runs.
C38_OneThreadOfEachKind ==
    [][ /\ (~monitor_alive /\ monitor_alive') =>
              (pc = "services" /\ mon_pc = "off")
        /\ monitor_alive' <=> mon_pc' # "off"
        /\ (mon_pc = "check" /\ mon_pc' = "head" /\ alert_pc # "off") =>
              alert_vars' = alert_vars
        /\ (alert_pc # "off" /\ alerts_sent' # alerts_sent) =>
              (alert_pc = "check" /\ alerts_sent' = alerts_sent + 1) ]_vars

\* C38 witness: the poll thread set the flag again while the alert thread,
\* past its loop, was still alive; no second alert thread was started.
C38_Witness ==
    /\ config.enable_verification_alerts
    /\ alert_pc = "exit"
    /\ verification_detected
    /\ ping_count < max_pings
    /\ ~should_stop_monitoring
    /\ monitor_alive

\* C39 as stated: when the process has ended, the session-end report has
\* been logged exactly once, also when a termination signal ended it.
C39_SessionEndReportedOnce ==
    pc = "exited" => session_ends = 1

====
